---- MODULE Spec2Model ----
(***************************************************************************)
(* Model of compas_fab's analytical inverse-kinematics wrapper             *)
(* (src/compas_fab/backends/ik_analytical/ik_solver.py): the               *)
(* InverseKinematicsSolver object, the closure inverse_kinematics it hands *)
(* out, and the post-processing it applies to the 8 raw configurations.    *)
(*                                                                         *)
(* Abstractions.  Angles are integers in units of pi/2, so a full turn is  *)
(* TwoPi = 4.  Rigid transformations are the permutations of 1..3 (the     *)
(* smallest group in which composition does not commute); None is the      *)
(* empty tuple for a transformation and a record tagged "None" for a frame *)
(* or a configuration.  A raised Python exception ends the call with       *)
(* pc = "fault" and the exception's name and line.                         *)
(***************************************************************************)
EXTENDS Integers, Sequences, FiniteSets, TLC

VARIABLES ctor, solver, robot, call, history, fitbuf, wrapper, rfl, nums, timer, plan, msgs

vars == <<ctor, solver, robot, call, history, fitbuf, wrapper, rfl, nums, timer, plan, msgs>>

latervars == <<timer, plan, msgs>>

(***************************************************************************)
(* Bounds of the model.                                                    *)
(***************************************************************************)
\* how many of the transformations are offered as base, tool and target frames
NFrames == 3
\* longest list handed to try_to_fit_configurations_between_bounds on its own
MaxLen == 3
\* how many calls of inverse_kinematics one solver serves
MaxCalls == 2

(***************************************************************************)
(* Program constants.                                                      *)
(***************************************************************************)
\* 2 * math.pi in units of math.pi / 2
TwoPi == 4
\* the IK function returns 8 configurations, one per branch
NSlots == 8
\* a 6-axis chain: j1 .. j6, a1 .. a6
NJoints == 6

Threads == {1, 2}

(***************************************************************************)
(* Transformations and frames (compas.geometry, used through *, inverse,   *)
(* from_frame and from_transformation).                                    *)
(***************************************************************************)
NoneT == <<>>

Transformations ==
    << <<2, 1, 3>>, <<2, 3, 1>>, <<1, 3, 2>>, <<3, 1, 2>>, <<3, 2, 1>>, <<1, 2, 3>> >>

\* a * b : first b, then a
Mul(a, b) == [i \in 1..3 |-> a[b[i]]]

Inverse(a) == [i \in 1..3 |-> CHOOSE j \in 1..3 : a[j] = i]

NoneFrame == [tag |-> "None", T |-> NoneT]

FrameFromTransformation(T) == [tag |-> "Frame", T |-> T]

TransformationFromFrame(f) == f.T

FrameIndex(f) == CHOOSE k \in 1..Len(Transformations) : Transformations[k] = f.T

FrameInputs == {FrameFromTransformation(Transformations[k]) : k \in 1..NFrames}

(***************************************************************************)
(* Configurations.                                                         *)
(***************************************************************************)
NoneCfg == [tag |-> "None", values |-> <<>>, joint_names |-> <<>>]

Cfg(vals) == [tag |-> "Configuration", values |-> vals, joint_names |-> <<>>]

IsNone(c) == c.tag = "None"

Abs(x) == IF x < 0 THEN -x ELSE x

(***************************************************************************)
(* The robot: six configurable joints with their limits, the joint names,  *)
(* the origin of the base link's fixed joint (robot.py).                   *)
(***************************************************************************)
Limit(lo, hi) == [lower |-> lo, upper |-> hi]

\* robot.get_configurable_joints(group): j.limit.lower, j.limit.upper
GetConfigurableJoints ==
    << Limit(-2, 2), Limit(-1, 1), Limit(-1, 2), Limit(-4, 4), Limit(-1, 1), Limit(-4, 4) >>

\* robot.get_configurable_joint_names(group)
GetConfigurableJointNames == << "joint_1", "joint_2", "joint_3", "joint_4", "joint_5", "joint_6" >>

\* origin of the fixed joint of the base link
FixedJointOrigin == FrameFromTransformation(Transformations[3])

NoFault == "none"

\* a get_base_frame that takes the keyword full_configuration and ignores it
GetBaseFrameAnyKeyword(rb, group, keywords) ==
    [fault |-> NoFault, frame |-> rb.fixed_origin]

\* Robot.get_base_frame(self, group=None): `keywords` are the keyword
\* arguments of the call; a keyword the signature does not have is a TypeError.
GetBaseFrame(rb, group, keywords) ==
    IF keywords \subseteq {"group"}
    THEN [fault |-> NoFault, frame |-> rb.fixed_origin]
    ELSE [fault |-> "TypeError", frame |-> NoneFrame]

(***************************************************************************)
(* fit_within_bounds(angle, lower, upper): shift by whole turns into       *)
(* [lower, upper]; AssertionError (ok = FALSE) when no shift gets there.   *)
(***************************************************************************)
RECURSIVE RaiseToLower(_, _)
RaiseToLower(a, lower) == IF a < lower THEN RaiseToLower(a + TwoPi, lower) ELSE a

RECURSIVE LowerToUpper(_, _)
LowerToUpper(a, upper) == IF a > upper THEN LowerToUpper(a - TwoPi, upper) ELSE a

FitWithinBounds(angle, lower, upper) ==
    LET a == LowerToUpper(RaiseToLower(angle, lower), upper)
    IN  [ok |-> (a >= lower /\ a <= upper), value |-> a]

(***************************************************************************)
(* InverseKinematicsSolver                                                 *)
(***************************************************************************)
\* __init__
NewSolver(rb, group, function, base_frame, tool_frame) ==
    [ group |-> group,
      joints |-> GetConfigurableJoints,
      joint_names |-> GetConfigurableJointNames,
      function |-> function,
      base_transformation |->
          IF base_frame.tag # "None" THEN Inverse(TransformationFromFrame(base_frame)) ELSE NoneT,
      tool_transformation |->
          IF tool_frame.tag # "None" THEN Inverse(TransformationFromFrame(tool_frame)) ELSE NoneT ]

\* update_base_transformation
UpdateBaseTransformation(s, base_frame) ==
    [s EXCEPT !.base_transformation = Inverse(TransformationFromFrame(base_frame))]

\* convert_frame_wcf_to_frame_tool0_rcf
ConvertFrameWcfToFrameTool0Rcf(frame_wcf, base_transformation, tool_transformation) ==
    LET T0 == TransformationFromFrame(frame_wcf)
        T1 == IF base_transformation # NoneT THEN Mul(base_transformation, T0) ELSE T0
        T2 == IF tool_transformation # NoneT THEN Mul(T1, tool_transformation) ELSE T1
    IN  FrameFromTransformation(T2)

\* a loop body that writes the values that fit and keeps the configuration
FitSlotPartial(joints, c) ==
    LET f == [j \in 1..NJoints |->
                 FitWithinBounds(c.values[j], joints[j].lower, joints[j].upper)]
    IN  [c EXCEPT !.values = [j \in 1..NJoints |->
                                 IF f[j].ok THEN f[j].value ELSE c.values[j]]]

\* one pass of the loop body of try_to_fit_configurations_between_bounds on a
\* configuration of six values: the fitted values, or None on AssertionError
FitSlot(joints, c) ==
    LET f == [j \in 1..NJoints |->
                 FitWithinBounds(c.values[j], joints[j].lower, joints[j].upper)]
    IN  IF \A j \in 1..NJoints : f[j].ok
        THEN [c EXCEPT !.values = [j \in 1..NJoints |-> f[j].value]]
        ELSE NoneCfg

\* a fit loop that stops at the first configuration it nulls
RECURSIVE FitLoopBreaking(_, _, _)
FitLoopBreaking(joints, configurations, i) ==
    IF i > Len(configurations)
    THEN [configurations |-> configurations, fault |-> NoFault]
    ELSE IF IsNone(configurations[i])
    THEN [configurations |-> configurations, fault |-> "AttributeError"]
    ELSE IF Len(configurations[i].values) # NJoints
    THEN [configurations |-> configurations, fault |-> "ValueError"]
    ELSE IF IsNone(FitSlot(joints, configurations[i]))
    THEN [configurations |-> [configurations EXCEPT ![i] = NoneCfg], fault |-> NoFault]
    ELSE FitLoopBreaking(joints,
                         [configurations EXCEPT ![i] = FitSlot(joints, configurations[i])],
                         i + 1)

\* the loop of try_to_fit_configurations_between_bounds from index i on:
\* c.values of None is an AttributeError, unpacking other than six values a
\* ValueError, both outside the try and so raised with the list as it is then
RECURSIVE FitLoop(_, _, _)
FitLoop(joints, configurations, i) ==
    IF i > Len(configurations)
    THEN [configurations |-> configurations, fault |-> NoFault]
    ELSE IF IsNone(configurations[i])
    THEN [configurations |-> configurations, fault |-> "AttributeError"]
    ELSE IF Len(configurations[i].values) # NJoints
    THEN [configurations |-> configurations, fault |-> "ValueError"]
    ELSE FitLoop(joints,
                 [configurations EXCEPT ![i] = FitSlot(joints, configurations[i])],
                 i + 1)

\* a fit that deletes the configurations out of bounds instead of nulling them
TryToFitCompacting(s, configurations) ==
    LET r == FitLoop(s.joints, configurations, 1)
    IN  [r EXCEPT !.configurations = SelectSeq(r.configurations, LAMBDA x : ~IsNone(x))]

\* try_to_fit_configurations_between_bounds
TryToFitConfigurationsBetweenBounds(s, configurations) ==
    FitLoop(s.joints, configurations, 1)

\* the loop of add_joint_names_to_configurations from index i on: setting an
\* attribute of None is an AttributeError
RECURSIVE NamesLoop(_, _, _)
NamesLoop(names, configurations, i) ==
    IF i > Len(configurations)
    THEN [configurations |-> configurations, fault |-> NoFault]
    ELSE IF IsNone(configurations[i])
    THEN [configurations |-> configurations, fault |-> "AttributeError"]
    ELSE NamesLoop(names,
                   [configurations EXCEPT ![i] = [@ EXCEPT !.joint_names = names]],
                   i + 1)

\* add_joint_names_to_configurations naming the first configuration only
AddJointNamesToFirst(s, configurations) ==
    IF configurations = <<>> THEN [configurations |-> configurations, fault |-> NoFault]
    ELSE IF IsNone(configurations[1])
    THEN [configurations |-> configurations, fault |-> "AttributeError"]
    ELSE [configurations |-> [configurations EXCEPT ![1] = [@ EXCEPT !.joint_names = s.joint_names]],
          fault |-> NoFault]

\* add_joint_names_to_configurations
AddJointNamesToConfigurations(s, configurations) ==
    NamesLoop(s.joint_names, configurations, 1)

(***************************************************************************)
(* The IK functions a solver is constructed with (`function`): each maps   *)
(* the tool0 frame to 8 slots.  A slot is a configuration whose values fit *)
(* the limits as they are ("ok"), fit after a shift by a whole turn        *)
(* ("shift"), cannot fit ("unfit"), has five values ("short"), or is None. *)
(* The pattern of slots turns with the frame, so the output depends on it. *)
(***************************************************************************)
Functions == {"reachable", "limited", "out_of_limits", "partial", "unreachable", "malformed"}

Pattern(function) ==
    CASE function = "reachable"     -> << "ok", "shift", "ok", "shift", "shift", "ok", "ok", "shift" >>
      [] function = "limited"       -> << "unfit", "ok", "unfit", "shift", "ok", "unfit", "shift", "unfit" >>
      [] function = "out_of_limits" -> << "unfit", "unfit", "unfit", "unfit", "unfit", "unfit", "unfit", "unfit" >>
      [] function = "partial"       -> << "ok", "none", "shift", "unfit", "none", "ok", "none", "shift" >>
      [] function = "unreachable"   -> << "none", "none", "none", "none", "none", "none", "none", "none" >>
      [] function = "malformed"     -> << "ok", "shift", "short", "ok", "unfit", "ok", "shift", "ok" >>

RawSlot(kind, fi, i) ==
    CASE kind = "ok"    -> Cfg(<< (fi % 3) - 1, 0, 1, i - 4, fi % 2, 4 - i >>)
      [] kind = "shift" -> Cfg(<< (fi % 3) + 3, 3, -2, i - 4, 5, 4 - i >>)
      [] kind = "unfit" -> Cfg(<< (fi % 3) - 1, 2, 1, i - 4, 0, 4 - i >>)
      [] kind = "short" -> Cfg(<< (fi % 3) - 1, 0, 1, i - 4, 0 >>)
      [] kind = "none"  -> NoneCfg

\* self.function(frame_tool0_RCF)
IKFunction(function, frame_rcf) ==
    LET fi == FrameIndex(frame_rcf)
    IN  [i \in 1..NSlots |-> RawSlot(Pattern(function)[((i + fi - 2) % NSlots) + 1], fi, i)]

(***************************************************************************)
(* The collision backend, robot.client: "None" when there is none, else    *)
(* which configurations it finds in collision.                             *)
(***************************************************************************)
Clients == {"None", "free", "some", "all"}

InCollision(client, c) ==
    CASE client = "free" -> FALSE
      [] client = "some" -> c.values[4] % 2 = 0
      [] client = "all"  -> TRUE

\* client.check_configurations_for_collision(configurations): every
\* configuration in collision is set to None in place
CheckConfigurationsForCollision(client, configurations) ==
    [i \in 1..Len(configurations) |->
        IF IsNone(configurations[i]) THEN NoneCfg
        ELSE IF InCollision(client, configurations[i]) THEN NoneCfg
        ELSE configurations[i]]

(***************************************************************************)
(* One call of the closure inverse_kinematics: its arguments, its locals   *)
(* and where it stands.                                                    *)
(***************************************************************************)
ZeroCfg == Cfg(<< 0, 0, 0, 0, 0, 0 >>)

StartConfigurations == {NoneCfg, ZeroCfg, Cfg(<< 1, -1, 2, 3, 1, -3 >>)}

NoArgs ==
    [ frame_WCF |-> NoneFrame, start_configuration |-> NoneCfg, avoid_collisions |-> TRUE,
      cull_not_working |-> FALSE, return_closest_to_start |-> FALSE ]

NoResult == [kind |-> "none", value |-> <<>>]

IdleCall ==
    [ pc |-> "idle", args |-> NoArgs, solver0 |-> NoneT, peer |-> "idle",
      frame_tool0_RCF |-> NoneFrame,
      raw |-> <<>>, configurations |-> <<>>, fitted |-> <<>>, filtered |-> <<>>,
      steps |-> <<>>, result |-> NoResult, fault |-> NoFault, line |-> 0 ]

Raise(c, exception, line) == [c EXCEPT !.pc = "fault", !.fault = exception, !.line = line]

\* lines 72-74 with the base transformation recomputed in every call
StepL72Unconditional(s, rb, c) ==
    LET b == GetBaseFrame(rb, s.group, {"group"})
    IN  [solver |-> UpdateBaseTransformation(s, b.frame), call |-> [c EXCEPT !.pc = "l80"]]

\* lines 72-74: with a start configuration, recompute the base transformation
StepL72(s, rb, c) ==
    IF ~IsNone(c.args.start_configuration)
    THEN LET b == GetBaseFrame(rb, s.group, {"full_configuration"})
         IN  IF b.fault # NoFault
             THEN [solver |-> s, call |-> Raise(c, b.fault, 73)]
             ELSE [solver |-> UpdateBaseTransformation(s, b.frame),
                   call |-> [c EXCEPT !.pc = "l80"]]
    ELSE [solver |-> s, call |-> [c EXCEPT !.pc = "l80"]]

\* line 80 with the two factors exchanged: tool_transformation * T * base_transformation
FrameTool0RCFSwapped(s, frame_WCF) ==
    IF s.base_transformation = NoneT \/ s.tool_transformation = NoneT
    THEN [fault |-> "TypeError", frame |-> NoneFrame]
    ELSE [fault |-> NoFault,
          frame |-> FrameFromTransformation(
                        Mul(Mul(s.tool_transformation, TransformationFromFrame(frame_WCF)),
                            s.base_transformation))]

\* line 80: base_transformation * T * tool_transformation; None has no product
FrameTool0RCF(s, frame_WCF) ==
    IF s.base_transformation = NoneT \/ s.tool_transformation = NoneT
    THEN [fault |-> "TypeError", frame |-> NoneFrame]
    ELSE [fault |-> NoFault,
          frame |-> FrameFromTransformation(
                        Mul(Mul(s.base_transformation, TransformationFromFrame(frame_WCF)),
                            s.tool_transformation))]

StepL80(s, rb, c) ==
    LET f == FrameTool0RCF(s, c.args.frame_WCF)
    IN  IF f.fault # NoFault
        THEN [solver |-> s, call |-> Raise(c, f.fault, 80)]
        ELSE [solver |-> s, call |-> [c EXCEPT !.pc = "l83", !.frame_tool0_RCF = f.frame]]

\* line 83 followed by the fit (line 97) with line 95 left out
StepL83FitFirst(s, rb, c) ==
    LET out == IKFunction(s.function, c.frame_tool0_RCF)
    IN  [solver |-> s,
         call |-> [c EXCEPT !.pc = "l97", !.raw = out, !.configurations = out]]

\* line 83: call the ik function
StepL83(s, rb, c) ==
    LET out == IKFunction(s.function, c.frame_tool0_RCF)
    IN  [solver |-> s,
         call |-> [c EXCEPT !.pc = "l95", !.raw = out, !.configurations = out]]

\* line 95
StepL95(s, rb, c) ==
    LET r == AddJointNamesToConfigurations(s, c.configurations)
        c1 == [c EXCEPT !.configurations = r.configurations, !.steps = Append(@, "names")]
    IN  [solver |-> s,
         call |-> IF r.fault # NoFault THEN Raise(c1, r.fault, 59) ELSE [c1 EXCEPT !.pc = "l97"]]

\* line 97
StepL97(s, rb, c) ==
    LET r == TryToFitConfigurationsBetweenBounds(s, c.configurations)
        c1 == [c EXCEPT !.configurations = r.configurations, !.steps = Append(@, "fit")]
    IN  [solver |-> s,
         call |-> IF r.fault # NoFault THEN Raise(c1, r.fault, 42)
                  ELSE [c1 EXCEPT !.pc = "l99", !.fitted = r.configurations]]

\* lines 99-100 with a missing client taken as "everything collides"
CollisionFilterFailClosed(rb, configurations) ==
    IF rb.client # "None"
    THEN CheckConfigurationsForCollision(rb.client, configurations)
    ELSE [i \in 1..Len(configurations) |-> NoneCfg]

\* lines 99-100
CollisionFilter(rb, configurations) ==
    IF rb.client # "None"
    THEN CheckConfigurationsForCollision(rb.client, configurations)
    ELSE configurations

StepL99(s, rb, c) ==
    LET out == CollisionFilter(rb, c.configurations)
    IN  [solver |-> s,
         call |-> [c EXCEPT !.pc = "l102", !.configurations = out, !.filtered = out,
                            !.steps = IF rb.client # "None" THEN Append(@, "collision")
                                      ELSE @]]

\* line 103 with the comprehension stopping at the first None
RECURSIVE CullKeepsPrefix(_)
CullKeepsPrefix(configurations) ==
    IF configurations = <<>> \/ IsNone(Head(configurations))
    THEN <<>>
    ELSE << Head(configurations) >> \o CullKeepsPrefix(Tail(configurations))

\* line 103
CullNotWorking(configurations) == SelectSeq(configurations, LAMBDA x : ~IsNone(x))

\* lines 102-109: the selection and the return
Select(args, configurations) ==
    LET kept == IF args.cull_not_working THEN CullNotWorking(configurations) ELSE configurations
    IN  IF args.return_closest_to_start
        THEN IF Len(kept) = 0
             THEN [fault |-> "IndexError", line |-> 107, configurations |-> kept,
                   result |-> NoResult]
             ELSE [fault |-> NoFault, line |-> 107, configurations |-> kept,
                   result |-> [kind |-> "configuration", value |-> << kept[1] >>]]
        ELSE [fault |-> NoFault, line |-> 109, configurations |-> kept,
              result |-> [kind |-> "list", value |-> kept]]

StepL102(s, rb, c) ==
    LET r == Select(c.args, c.configurations)
        c1 == [c EXCEPT !.configurations = r.configurations, !.steps = Append(@, "selection")]
    IN  [solver |-> s,
         call |-> IF r.fault # NoFault
                  THEN Raise(c1, r.fault, r.line)
                  ELSE [c1 EXCEPT !.pc = "done", !.result = r.result, !.line = r.line]]

Terminal(c) == c.pc \in {"done", "fault"}

\* the step the call stands at
StepOf(s, rb, c) ==
    CASE c.pc = "l72"  -> StepL72(s, rb, c)
      [] c.pc = "l80"  -> StepL80(s, rb, c)
      [] c.pc = "l83"  -> StepL83(s, rb, c)
      [] c.pc = "l95"  -> StepL95(s, rb, c)
      [] c.pc = "l97"  -> StepL97(s, rb, c)
      [] c.pc = "l99"  -> StepL99(s, rb, c)
      [] c.pc = "l102" -> StepL102(s, rb, c)

\* the whole call, run without interruption from where it stands
RECURSIVE RunToEnd(_, _, _)
RunToEnd(s, rb, c) ==
    IF Terminal(c) THEN [solver |-> s, call |-> c]
    ELSE LET r == StepOf(s, rb, c) IN RunToEnd(r.solver, rb, r.call)

\* the call's frame on entry; solver0 and peer only record, for the properties,
\* the base transformation the call found and where the other caller stood
Enter(s, args, peer) ==
    [IdleCall EXCEPT !.pc = "l72", !.args = args, !.solver0 = s.base_transformation,
                     !.peer = peer]

\* what the caller gets: the return value or the exception
Outcome(c) == [pc |-> c.pc, result |-> c.result, fault |-> c.fault, line |-> c.line]

(***************************************************************************)
(* The per-robot ik functions ik_staubli_txl60 and ik_abb_irb4600_40_255:  *)
(* the four points of the robot, the call of the spherical-wrist solver,   *)
(* the corrections of its angles and the eight configurations built from   *)
(* them.  Lengths are millimetres, angles multiples of pi/2.  An angle is  *)
(* a record so that None can stand in a list of angles.                    *)
(***************************************************************************)
\* the target points lie on a grid of this step, 0..MaxGrid steps along x and z
GridStep == 1000

MaxGrid == 3

Robots == {"staubli_txl60", "abb_irb4600_40_255"}

\* p1..p4 of the two functions
Points(r) ==
    IF r = "staubli_txl60"
    THEN [p1 |-> << 0, 0, 375 >>, p2 |-> << 0, 20, 775 >>,
          p3 |-> << 450, 20, 775 >>, p4 |-> << 520, 20, 775 >>]
    ELSE [p1 |-> << 175, 0, 495 >>, p2 |-> << 175, 0, 1590 >>,
          p3 |-> << 1446, 0, 1765 >>, p4 |-> << 1581, 0, 1765 >>]

NoneAngle == [tag |-> "None", v |-> 0]

Angle(n) == [tag |-> "float", v |-> n]

RECURSIVE Bisect(_, _, _)
Bisect(n, lo, hi) ==
    IF hi - lo <= 1 THEN lo
    ELSE LET mid == (lo + hi) \div 2
         IN  IF mid * mid <= n THEN Bisect(n, mid, hi) ELSE Bisect(n, lo, mid)

\* the integer part of the square root
ISqrt(n) == Bisect(n, 0, 46340)

\* the distance of two points, rounded down
Length(a, b) ==
    ISqrt((a[1] - b[1]) * (a[1] - b[1]) + (a[2] - b[2]) * (a[2] - b[2])
          + (a[3] - b[3]) * (a[3] - b[3]))

\* the wrist centre: the target point moved back along the approach axis by
\* the distance of p3 and p4
WristCentre(g, frame_rcf) ==
    [k \in 1..3 |-> frame_rcf.point[k]
                      - (IF k = frame_rcf.T[1] THEN Length(g.p3, g.p4) ELSE 0)]

\* the triangle shoulder point - elbow - wrist centre closes
Reachable(g, frame_rcf) ==
    LET d == Length(g.p1, WristCentre(g, frame_rcf))
        upper == Length(g.p1, g.p2)
        fore == Length(g.p2, g.p3)
    IN  d <= upper + fore /\ d >= Abs(upper - fore)

\* the angles of branch i: shoulder, elbow and wrist alternative from the index
BranchAngles(frame_rcf, i) ==
    LET sh == (i - 1) \div 4
        el == ((i - 1) \div 2) % 2
        wr == (i - 1) % 2
        k == frame_rcf.T[1]
    IN  << k + 2 * sh - 2, 1 - 2 * el, 2 * el - 1, 2 * wr - 1, 1 - 2 * wr, k - 2 * wr >>

\* A1..A6 of the eight branches; a branch without solution holds None
InverseKinematicsSphericalWrist(g, frame_rcf) ==
    [j \in 1..NJoints |->
        [i \in 1..NSlots |->
            IF Reachable(g, frame_rcf)
            THEN Angle(BranchAngles(frame_rcf, i)[j])
            ELSE NoneAngle]]

\* the joints whose angle the loop rewrites, with the line that does it
Corrected(r) ==
    IF r = "staubli_txl60"
    THEN << [joint |-> 1, line |-> 127], [joint |-> 2, line |-> 128],
            [joint |-> 4, line |-> 129], [joint |-> 6, line |-> 130] >>
    ELSE << [joint |-> 1, line |-> 145], [joint |-> 2, line |-> 146],
            [joint |-> 3, line |-> 147], [joint |-> 4, line |-> 148],
            [joint |-> 6, line |-> 149] >>

\* the corrections without the quarter turn of axis 2
CorrectionNoOffset(r, j, a) ==
    CASE j = 1 -> (-1) * a
      [] j = 2 -> a
      [] j = 3 -> IF r = "abb_irb4600_40_255" THEN a - TwoPi \div 4 ELSE a
      [] j = 4 -> a * (-1)
      [] j = 5 -> a
      [] j = 6 -> a * (-1) + TwoPi \div 4

\* lines 127-130 and 145-149: what the loop makes of the value of joint j
Correction(r, j, a) ==
    CASE j = 1 -> (-1) * a
      [] j = 2 -> a + TwoPi \div 4
      [] j = 3 -> IF r = "abb_irb4600_40_255" THEN a - TwoPi \div 4 ELSE a
      [] j = 4 -> a * (-1)
      [] j = 5 -> a
      [] j = 6 -> a * (-1) + TwoPi \div 4

\* one assignment of the loop body: arithmetic on None is a TypeError
RECURSIVE CorrectBranch(_, _, _, _)
CorrectBranch(r, A, i, n) ==
    IF n > Len(Corrected(r)) THEN [A |-> A, fault |-> NoFault, line |-> 0]
    ELSE LET j == Corrected(r)[n].joint
         IN  IF A[j][i] = NoneAngle
             THEN [A |-> A, fault |-> "TypeError", line |-> Corrected(r)[n].line]
             ELSE CorrectBranch(r,
                                [A EXCEPT ![j][i] = Angle(Correction(r, j, A[j][i].v))],
                                i, n + 1)

\* lines 126-130 and 144-149: for i in range(8)
RECURSIVE CorrectLoop(_, _, _)
CorrectLoop(r, A, i) ==
    IF i > NSlots THEN [A |-> A, fault |-> NoFault, line |-> 0]
    ELSE LET b == CorrectBranch(r, A, i, 1)
         IN  IF b.fault # NoFault THEN b ELSE CorrectLoop(r, b.A, i + 1)

\* lines 113-114: one configuration per branch, never None
JointAnglesToConfigurations(A) ==
    [i \in 1..NSlots |-> Cfg([j \in 1..NJoints |-> A[j][i].v])]

NoAngles == [j \in 1..NJoints |-> <<>>]

NoWrapper ==
    [ pc |-> "idle", robot |-> "none", frame_rcf |-> [point |-> << 0, 0, 0 >>, T |-> NoneT],
      raw |-> NoAngles, A |-> NoAngles, configurations |-> <<>>,
      fault |-> NoFault, line |-> 0 ]

(***************************************************************************)
(* The rfl package: Configuration and Robot of robots.py and the Simulator *)
(* of simulator.py with the remote API it talks to.  Joint values of a     *)
(* Configuration are degrees, the floats sent to the simulator radians in  *)
(* multiples of pi/2.  The interpreter is Python 2 or Python 3: both files *)
(* import print_function from __future__.                                  *)
(***************************************************************************)
\* longest list handed to Configuration and Configuration.from_list
MaxList == 10
\* how deep with-blocks on one Simulator nest
MaxDepth == 2
\* largest client id simxStart hands out
MaxClientId == 1

Pythons == {"py2", "py3"}

\* math.degrees and math.radians
Degrees(a) == (a * 360) \div TwoPi

Radians(d) == (d * TwoPi) \div 360

\* the list of n floats the model offers
Floats(n) == [i \in 1..n |-> i - 4]

NoConfiguration == [tag |-> "None", coordinates |-> <<>>, joint_values |-> <<>>]

\* what len() yields: a map object has no len() in Python 3
LenOf(x) ==
    IF x.kind = "map" THEN [fault |-> "TypeError", len |-> 0]
    ELSE [fault |-> NoFault, len |-> Len(x.items)]

List(items) == [kind |-> "list", items |-> items]

\* map(f, list): a list in Python 2, an iterator in Python 3
Map(python, items) == [kind |-> IF python = "py2" THEN "list" ELSE "map", items |-> items]

\* Configuration.__init__
NewConfiguration(coordinates, joint_values) ==
    LET nc == LenOf(coordinates)
        nj == LenOf(joint_values)
    IN  CASE nc.fault # NoFault ->
               [fault |-> nc.fault, line |-> 16, value |-> NoConfiguration]
          [] nc.fault = NoFault /\ nc.len # 3 ->
               [fault |-> "ValueError", line |-> 17, value |-> NoConfiguration]
          [] nc.fault = NoFault /\ nc.len = 3 /\ nj.fault # NoFault ->
               [fault |-> nj.fault, line |-> 18, value |-> NoConfiguration]
          [] nc.fault = NoFault /\ nc.len = 3 /\ nj.fault = NoFault /\ nj.len # 6 ->
               [fault |-> "ValueError", line |-> 19, value |-> NoConfiguration]
          [] OTHER ->
               [fault |-> NoFault, line |-> 22,
                value |-> [tag |-> "Configuration", coordinates |-> coordinates.items,
                           joint_values |-> joint_values.items]]

\* Configuration.from_list
FromList(python, list_of_floats) ==
    LET angles == Map(python, [i \in 1..(Len(list_of_floats) - 3) |->
                                   Degrees(list_of_floats[i + 3])])
        first == IF Len(list_of_floats) < 3 THEN list_of_floats
                 ELSE SubSeq(list_of_floats, 1, 3)
    IN  NewConfiguration(List(first), angles)

\* client_id: None or what simxStart returned
NoneId == [tag |-> "None", v |-> 0]

Id(n) == [tag |-> "int", v |-> n]

\* what simxStart can return: a client id, or -1 when the connection fails
StartResults == {Id(n) : n \in -1..MaxClientId}

\* Simulator.__init__
NewSimulator == [client_id |-> NoneId]

\* the remote API: the connections it holds, the simulation, the script calls
NoVrep == [open |-> {}, running |-> FALSE, received |-> <<>>]

\* Simulator.__enter__; started is what simxStart returns
SimulatorEnter(sim, api, started) ==
    [ sim |-> [sim EXCEPT !.client_id = started],
      api |-> [api EXCEPT !.open = IF started.v >= 0 THEN {started} ELSE {},
                          !.running = started.v >= 0] ]

\* Simulator.__exit__ without line 71
SimulatorExitKeepsId(sim, api) ==
    [ sim |-> sim,
      api |-> [api EXCEPT !.running = FALSE, !.open = @ \ {sim.client_id}] ]

\* Simulator.__exit__
SimulatorExit(sim, api) ==
    [ sim |-> [sim EXCEPT !.client_id = NoneId],
      api |-> [api EXCEPT !.running = FALSE, !.open = @ \ {sim.client_id}] ]

\* Simulator.is_connected
IsConnected(sim) == sim.client_id # NoneId /\ sim.client_id # Id(-1)

\* Robot.SUPPORTED_ROBOTS and ROBOT_SETTINGS
SupportedRobots == << 11, 12, 21, 22 >>

RobotSettings(id) ==
    CASE id = 11 -> [name |-> "A", base_coordinates |-> << 7, -2, -4 >>]
      [] id = 12 -> [name |-> "B", base_coordinates |-> << 7, -10, -4 >>]
      [] id = 21 -> [name |-> "C", base_coordinates |-> << 30, -2, -4 >>]
      [] id = 22 -> [name |-> "D", base_coordinates |-> << 30, -10, -4 >>]

BaseJointValues == [i \in 1..6 |-> 0]

\* Robot.__init__ for a supported id
NewRobot(id) ==
    [ id |-> id, name |-> RobotSettings(id).name,
      index |-> (CHOOSE k \in 1..Len(SupportedRobots) : SupportedRobots[k] = id) - 1 ]

\* Simulator.set_metric and Simulator.run_child_script: one script call each
ScriptCall(sim, function, ints, floats, strings) ==
    [ client_id |-> sim.client_id, function |-> function, ints |-> ints,
      floats |-> floats, strings |-> strings ]

\* the body of Simulator.set_robot_config
SetRobotConfigBody(sim, api, rb, gantry_values, joint_values) ==
    LET values == gantry_values \o [i \in 1..Len(joint_values) |-> Radians(joint_values[i])]
    IN  [api EXCEPT !.received =
             << ScriptCall(sim, "setTheMetric", <<>>, [i \in 1..9 |-> 0], <<>>),
                ScriptCall(sim, "moveRobotFK", <<>>, values, << "robot", rb.name >>) >>]

\* the parameters of Simulator.set_robot_config after self
SetRobotConfigParameters == << "robot", "gantry_values", "joint_values" >>

\* a call of Simulator.set_robot_config with the positional arguments given:
\* the interpreter binds them to the parameters or raises TypeError
SetRobotConfig(sim, api, arguments) ==
    IF Len(arguments) # Len(SetRobotConfigParameters)
    THEN [fault |-> "TypeError", api |-> api]
    ELSE [fault |-> NoFault,
          api |-> SetRobotConfigBody(sim, api, arguments[1].robot, arguments[2].items,
                                     arguments[3].items)]

\* an argument of a call: a robot, a Configuration or a list
Argument(kind, rb, config, items) ==
    [kind |-> kind, robot |-> rb, config |-> config, items |-> items]

NoRobot == [id |-> 0, name |-> "", index |-> 0]

\* Robot.set_config: line 83 passes the robot and the Configuration
SetConfig(sim, api, rb, config) ==
    LET r == SetRobotConfig(sim, api,
                            << Argument("robot", rb, NoConfiguration, <<>>),
                               Argument("config", NoRobot, config, <<>>) >>)
    IN  [fault |-> r.fault, line |-> IF r.fault = NoFault THEN 0 ELSE 83, api |-> r.api]

\* Robot.reset_config
ResetConfig(sim, api, rb) ==
    LET c == NewConfiguration(List(RobotSettings(rb.id).base_coordinates),
                              List(BaseJointValues))
    IN  IF c.fault # NoFault THEN [fault |-> c.fault, line |-> c.line, api |-> api]
        ELSE SetConfig(sim, api, rb, c.value)

NoOp ==
    [ name |-> "none", robot |-> NoRobot, config |-> NoConfiguration,
      coordinates |-> <<>>, joint_values |-> <<>>,
      fault |-> NoFault, line |-> 0, value |-> NoConfiguration ]

NoRfl ==
    [ python |-> "py2", simulator |-> NewSimulator, vrep |-> NoVrep,
      depth |-> 0, last |-> "init", closed |-> NoneId, op |-> NoOp ]

(***************************************************************************)
(* fab/utilities/numbers.py: arange on integers.                           *)
(***************************************************************************)
\* start, stop and step are drawn from -MaxNum..MaxNum
MaxNum == 3

\* math.ceil(a / float(b)) for b # 0
CeilDiv(a, b) == IF b > 0 THEN -((-a) \div b) ELSE -(a \div (-b))

\* arange(start, stop, step)
Arange(start, stop, step) ==
    CASE Abs(stop - (start + step)) > Abs(stop - start) ->
             [fault |-> "ValueError", line |-> 23, value |-> <<>>]
      [] Abs(stop - (start + step)) <= Abs(stop - start) /\ step = 0 ->
             [fault |-> "ZeroDivisionError", line |-> 25, value |-> <<>>]
      [] OTHER ->
             LET len == CeilDiv(stop - start, step)
             IN  [fault |-> NoFault, line |-> 26,
                  value |-> [i \in 1..len |-> start + (i - 1) * step]]

NoNums ==
    [ pc |-> "idle", start |-> 0, stop |-> 0, step |-> 0,
      fault |-> NoFault, line |-> 0, value |-> <<>> ]

(***************************************************************************)
(* fab/ghpython/utilities/timer.py: update_component, the document it      *)
(* schedules a solution on and the component the callback expires.         *)
(***************************************************************************)
\* delays are drawn from -1..MaxDelay
MaxDelay == 2
\* how many times update_component is called
MaxUpdates == 3

Components == {"a", "b"}

\* the Grasshopper document: the solutions scheduled on it, and how often each
\* component had ExpireSolution called
NoDocument == [scheduled |-> <<>>, expired |-> [c \in Components |-> 0]]

\* update_component with the guard of line 20 letting 0 through
UpdateComponentFromZero(doc, component, delay) ==
    IF delay < 0
    THEN [fault |-> "ValueError", line |-> 21, doc |-> doc]
    ELSE [fault |-> NoFault, line |-> 29,
          doc |-> [doc EXCEPT !.scheduled =
                       Append(@, [delay |-> delay, callback |-> component])]]

\* update_component(ghenv, delay); component is ghenv.Component
UpdateComponent(doc, component, delay) ==
    IF delay <= 0
    THEN [fault |-> "ValueError", line |-> 21, doc |-> doc]
    ELSE [fault |-> NoFault, line |-> 29,
          doc |-> [doc EXCEPT !.scheduled =
                       Append(@, [delay |-> delay, callback |-> component])]]

\* the sequence without its k-th element
Without(q, k) == SubSeq(q, 1, k - 1) \o SubSeq(q, k + 1, Len(q))

\* the document runs scheduled solution k: callback (lines 26-27)
Callback(doc, k) ==
    [doc EXCEPT !.scheduled = Without(@, k),
                !.expired[doc.scheduled[k].callback] = @ + 1]

NoTimerOp == [name |-> "none", component |-> "a", delay |-> 0, fault |-> NoFault, line |-> 0]

NoTimer == [doc |-> NoDocument, before |-> NoDocument, op |-> NoTimerOp, calls |-> 0]

(***************************************************************************)
(* fabrication/robots/rfl/simulator.py: find_path_plan with add_meshes and *)
(* remove_meshes.  The scene is the set of object handles the simulation   *)
(* holds; buildMesh gives each mesh one new handle.                        *)
(***************************************************************************)
\* how many collision meshes a call passes at most
MaxMeshes == 2
\* how many times find_path_plan is called
MaxPlans == 2

\* remove_meshes (line 260) and remove_objects (lines 268-269)
RemoveObjects(scene, object_handles) ==
    scene \ {object_handles[k] : k \in DOMAIN object_handles}

\* lines 168-173: mesh_handles = [] and the entry into add_meshes (line 230)
\* when collision_meshes is a non-empty list
PlanEnter(p, n) ==
    [p EXCEPT !.pc = IF n > 0 THEN "l232" ELSE "l178",
              !.collision_meshes = n, !.i = 1, !.local = <<>>,
              !.mesh_handles = <<>>, !.added = {}, !.pending = "none",
              !.outcome = "none", !.calls = @ + 1]

\* add_meshes lines 232-247 for one mesh, and lines 249 and 173 after the last
AddMesh(p) ==
    LET handle == p.next
        local == Append(p.local, handle)
        last == p.i = p.collision_meshes
    IN  [p EXCEPT !.scene = @ \cup {handle}, !.added = @ \cup {handle},
                  !.next = @ + 1, !.i = @ + 1,
                  !.local = IF last THEN <<>> ELSE local,
                  !.mesh_handles = IF last THEN local ELSE @,
                  !.pc = IF last THEN "l178" ELSE "l232"]

\* an exception inside the loop of add_meshes (line 235 or 243) leaves
\* add_meshes without line 249, so line 173 assigns nothing
AddMeshRaises(p) ==
    [p EXCEPT !.pc = "finally", !.pending = "Exception", !.local = <<>>]

\* lines 183-190 and 193-208: res is the return code of the child script
Search(p, res, message, then) ==
    IF res # 0
    THEN [p EXCEPT !.pc = "finally", !.pending = message]
    ELSE IF then = "return" THEN [p EXCEPT !.pc = "finally", !.pending = "return"]
    ELSE [p EXCEPT !.pc = then]

\* lines 210-217: remove_meshes(mesh_handles), then the return or the raise
\* of the try block goes on
Finally(p) ==
    [p EXCEPT !.pc = "done", !.outcome = p.pending,
              !.scene = RemoveObjects(@, p.mesh_handles)]

NoPlan ==
    [pc |-> "idle", collision_meshes |-> 0, i |-> 1, local |-> <<>>,
     mesh_handles |-> <<>>, scene |-> {}, added |-> {}, pending |-> "none",
     outcome |-> "none", next |-> 1, calls |-> 0]

(***************************************************************************)
(* compas_fab/robots/backends/ros/messages.py: the objects behind Time,    *)
(* Header, JointState and RobotState.  The heap is a sequence of cells, an *)
(* address is an index into it, and a field that holds a list or a message *)
(* holds its address.                                                      *)
(***************************************************************************)
\* how many messages are constructed
MaxObjects == 2
\* how long a list grows
MaxItems == 1

Cell(class, refs) == [class |-> class, items |-> <<>>, secs |-> 0, refs |-> refs]

\* a new object on the heap; its address is Len of the result
New(h, class, refs) == Append(h, Cell(class, refs))

\* the heap after the module has been imported: a default value is evaluated
\* once, when its def statement runs
\*   1  Time()        default of Header.stamp                  (line 63)
\*   2  Header()      default of JointState.header             (line 144)
\*   3  []            default of JointState.name               (line 144)
\*   4  []            default of JointState.position           (line 144)
\*   5  JointState()  default of RobotState.joint_state        (line 360)
\*   6  []            default of RobotState.attached_collision_objects
\* velocity and effort of JointState are as position, and
\* multi_dof_joint_state of RobotState is as joint_state
ImportHeap ==
    LET h1 == New(<<>>, "Time", <<>>)
        h2 == New(h1, "Header", <<1>>)
        h3 == New(h2, "list", <<>>)
        h4 == New(h3, "list", <<>>)
        h5 == New(h4, "JointState", <<2, 3, 4>>)
    IN  New(h5, "list", <<>>)

MessageClasses == {"Time", "Header", "JointState", "RobotState"}

\* the default of each argument of __init__ that is not a number or a string
DefaultRefs(class) ==
    CASE class = "Header" -> <<1>>
      [] class = "JointState" -> <<2, 3, 4>>
      [] class = "RobotState" -> <<5, 6>>
      [] OTHER -> <<>>

\* class(): every argument is left to its default, __init__ stores the
\* default objects themselves (lines 64-66, 146-150, 362-366)
Construct(h, class) == New(h, class, DefaultRefs(class))

\* the classes of the arguments of __init__ that are lists or messages
ArgumentClasses(class) ==
    CASE class = "Header" -> <<"Time">>
      [] class = "JointState" -> <<"Header", "list", "list">>
      [] class = "RobotState" -> <<"JointState", "list">>
      [] OTHER -> <<>>

RECURSIVE ConstructWith(_, _)
RECURSIVE ConstructArguments(_, _, _)
\* the heap after the arguments k.. of class have been built, each a new
\* object, with the addresses of the built arguments
ConstructArguments(h, classes, k) ==
    IF k > Len(classes) THEN [heap |-> h, refs |-> <<>>]
    ELSE LET one == ConstructWith(h, classes[k])
             rest == ConstructArguments(one, classes, k + 1)
         IN  [heap |-> rest.heap, refs |-> <<Len(one)>> \o rest.refs]

\* class(a=A(...), b=[] ...): the caller passes a new object for every
\* argument that is a list or a message
ConstructWith(h, class) ==
    LET args == ConstructArguments(h, ArgumentClasses(class), 1)
    IN  New(args.heap, class, args.refs)

RECURSIVE Reach(_, _)
\* the objects an object reaches through its fields, itself included
Reach(h, a) == {a} \cup UNION {Reach(h, h[a].refs[k]) : k \in DOMAIN h[a].refs}

RECURSIVE View(_, _)
\* what reading the fields of the object at a gives
View(h, a) ==
    [class |-> h[a].class, items |-> h[a].items, secs |-> h[a].secs,
     fields |-> [k \in DOMAIN h[a].refs |-> View(h, h[a].refs[k])]]

\* a list can take one more item, a Time can have secs assigned
Mutable(h, t) ==
    \/ h[t].class = "list" /\ Len(h[t].items) < MaxItems
    \/ h[t].class = "Time"

\* the_list.append(v), or the_time.secs = v
Mutated(h, t, v) ==
    IF h[t].class = "list" THEN [h EXCEPT ![t].items = Append(@, v)]
    ELSE [h EXCEPT ![t].secs = v]

NoMsgs == [heap |-> ImportHeap, objects |-> <<>>]

InitLaterIdle ==
    /\ timer = NoTimer
    /\ plan = NoPlan
    /\ msgs = NoMsgs

(***************************************************************************)
(* The state machine.                                                      *)
(***************************************************************************)
NoFit == [input |-> <<>>, configurations |-> <<>>, first |-> <<>>, fault |-> NoFault, applied |-> 0]

Ctors ==
    [ base_frame : FrameInputs \cup {NoneFrame}, tool_frame : FrameInputs \cup {NoneFrame},
      function : Functions ]

InitWith(ctors, clients, inputs) ==
    /\ ctor \in ctors
    /\ robot \in [client : clients, fixed_origin : {FixedJointOrigin}]
    /\ solver = NewSolver(robot, "arm", ctor.function, ctor.base_frame, ctor.tool_frame)
    /\ call = [t \in Threads |-> IdleCall]
    /\ history = [calls |-> 0, with_start |-> FALSE]
    /\ fitbuf \in {[NoFit EXCEPT !.input = input, !.configurations = input] : input \in inputs}
    /\ wrapper = NoWrapper
    /\ rfl = NoRfl
    /\ nums = NoNums
    /\ InitLaterIdle

Init == InitWith(Ctors, Clients, {<<>>})

ArgSets ==
    [ frame_WCF : FrameInputs, start_configuration : StartConfigurations,
      avoid_collisions : BOOLEAN, cull_not_working : BOOLEAN,
      return_closest_to_start : BOOLEAN ]

\* a caller invokes inverse_kinematics(frame_WCF, ...)
Call(t, args) ==
    /\ call[t].pc = "idle"
    /\ history.calls < MaxCalls
    /\ call' = [call EXCEPT ![t] = Enter(solver, args, call[CHOOSE u \in Threads : u # t].pc)]
    /\ history' = [calls |-> history.calls + 1,
                   with_start |-> history.with_start \/ ~IsNone(args.start_configuration)]
    /\ UNCHANGED <<ctor, solver, robot, fitbuf, wrapper, rfl, nums, latervars>>

Advance(t) ==
    LET r == StepOf(solver, robot, call[t])
    IN  /\ solver' = r.solver
        /\ call' = [call EXCEPT ![t] = r.call]
        /\ UNCHANGED <<ctor, robot, history, fitbuf, wrapper, rfl, nums, latervars>>

UpdateBase(t) ==
    /\ call[t].pc = "l72"
    /\ Advance(t)

ConvertFrame(t) ==
    /\ call[t].pc = "l80"
    /\ Advance(t)

CallFunction(t) ==
    /\ call[t].pc = "l83"
    /\ Advance(t)

AddJointNames(t) ==
    /\ call[t].pc = "l95"
    /\ Advance(t)

FitBounds(t) ==
    /\ call[t].pc = "l97"
    /\ Advance(t)

CheckCollisions(t) ==
    /\ call[t].pc = "l99"
    /\ Advance(t)

SelectAndReturn(t) ==
    /\ call[t].pc = "l102"
    /\ Advance(t)

\* the caller has its result (or its exception) and may call again
Return(t) ==
    /\ Terminal(call[t])
    /\ call' = [call EXCEPT ![t] = IdleCall]
    /\ UNCHANGED <<ctor, solver, robot, history, fitbuf, wrapper, rfl, nums, latervars>>

Steps(t) ==
    \/ UpdateBase(t)
    \/ ConvertFrame(t)
    \/ CallFunction(t)
    \/ AddJointNames(t)
    \/ FitBounds(t)
    \/ CheckCollisions(t)
    \/ SelectAndReturn(t)
    \/ Return(t)

\* one caller at a time
Next ==
    \/ \E args \in ArgSets : Call(1, args)
    \/ Steps(1)

Spec == Init /\ [][Next]_vars

(***************************************************************************)
(* Two callers on the same solver, their steps interleaved line by line.   *)
(***************************************************************************)
ConcCtors ==
    [ base_frame : FrameInputs, tool_frame : {FrameFromTransformation(Transformations[1])},
      function : {"limited"} ]

ConcArgSets ==
    [ frame_WCF : FrameInputs, start_configuration : StartConfigurations,
      avoid_collisions : {TRUE}, cull_not_working : {FALSE},
      return_closest_to_start : {FALSE} ]

InitConc == InitWith(ConcCtors, {"some"}, {<<>>})

NextConc ==
    \E t \in Threads :
        \/ \E args \in ConcArgSets : Call(t, args)
        \/ Steps(t)

SpecConc == InitConc /\ [][NextConc]_vars

(***************************************************************************)
(* try_to_fit_configurations_between_bounds on its own, applied to a list  *)
(* and then again to the list it returned.                                 *)
(***************************************************************************)
\* how often the fit is applied in a row
MaxApply == 2

FitPool ==
    { RawSlot("ok", 1, 4), RawSlot("shift", 2, 5), RawSlot("unfit", 3, 6), RawSlot("shift", 1, 1) }

FitInputs == UNION { [1..n -> FitPool] : n \in 0..MaxLen }

InitFit ==
    InitWith({[base_frame |-> NoneFrame, tool_frame |-> NoneFrame, function |-> "reachable"]},
             {"None"}, FitInputs)

ApplyFit ==
    /\ fitbuf.applied < MaxApply
    /\ fitbuf.fault = NoFault
    /\ LET r == TryToFitConfigurationsBetweenBounds(solver, fitbuf.configurations)
       IN  fitbuf' = [fitbuf EXCEPT !.configurations = r.configurations,
                                    !.fault = r.fault,
                                    !.applied = @ + 1,
                                    !.first = IF fitbuf.applied = 0 THEN r.configurations ELSE @]
    /\ UNCHANGED <<ctor, solver, robot, call, history, wrapper, rfl, nums, latervars>>

NextFit == ApplyFit

SpecFit == InitFit /\ [][NextFit]_vars

(***************************************************************************)
(* The per-robot ik functions called on their own.                         *)
(***************************************************************************)
solvervars == <<ctor, solver, robot, call, history, fitbuf>>

\* a solver that serves no call, for the specifications of the other files
InitSolverIdle ==
    /\ ctor = [base_frame |-> NoneFrame, tool_frame |-> NoneFrame, function |-> "reachable"]
    /\ robot = [client |-> "None", fixed_origin |-> FixedJointOrigin]
    /\ solver = NewSolver(robot, "arm", ctor.function, ctor.base_frame, ctor.tool_frame)
    /\ call = [t \in Threads |-> IdleCall]
    /\ history = [calls |-> 0, with_start |-> FALSE]
    /\ fitbuf = NoFit

TargetFrames ==
    { [point |-> << x * GridStep, 0, z * GridStep >>, T |-> Transformations[k]] :
          x \in 0..MaxGrid, z \in 0..MaxGrid, k \in 1..NFrames }

InitWrap ==
    /\ InitSolverIdle
    /\ wrapper \in {[NoWrapper EXCEPT !.pc = "core", !.robot = r, !.frame_rcf = f] :
                        r \in Robots, f \in TargetFrames}
    /\ rfl = NoRfl
    /\ nums = NoNums
    /\ InitLaterIdle

\* lines 124 and 142
WrapCallCore ==
    /\ wrapper.pc = "core"
    /\ LET out == InverseKinematicsSphericalWrist(Points(wrapper.robot), wrapper.frame_rcf)
       IN  wrapper' = [wrapper EXCEPT !.pc = "loop", !.raw = out, !.A = out]
    /\ UNCHANGED <<solvervars, rfl, nums, latervars>>

\* lines 126-130 and 144-149
WrapCorrect ==
    /\ wrapper.pc = "loop"
    /\ LET r == CorrectLoop(wrapper.robot, wrapper.A, 1)
       IN  wrapper' = IF r.fault # NoFault
                      THEN [wrapper EXCEPT !.pc = "fault", !.fault = r.fault, !.line = r.line]
                      ELSE [wrapper EXCEPT !.pc = "build", !.A = r.A]
    /\ UNCHANGED <<solvervars, rfl, nums, latervars>>

\* lines 132 and 151
WrapBuild ==
    /\ wrapper.pc = "build"
    /\ wrapper' = [wrapper EXCEPT !.pc = "done",
                                  !.configurations = JointAnglesToConfigurations(wrapper.A)]
    /\ UNCHANGED <<solvervars, rfl, nums, latervars>>

NextWrap ==
    \/ WrapCallCore
    \/ WrapCorrect
    \/ WrapBuild

SpecWrap == InitWrap /\ [][NextWrap]_vars

(***************************************************************************)
(* The rfl package in use: with-blocks on one Simulator, a Robot that has  *)
(* it as client, Configurations built from lists.  op is the last call     *)
(* made and what came of it, vrep.received the script calls it caused.     *)
(***************************************************************************)
\* the remote API at the start of a call: nothing received for it yet
Fresh(api) == [api EXCEPT !.received = <<>>]

InitRfl ==
    /\ InitSolverIdle
    /\ wrapper = NoWrapper
    /\ rfl \in {[NoRfl EXCEPT !.python = p] : p \in Pythons}
    /\ nums = NoNums
    /\ InitLaterIdle

\* the Configurations handed to set_config
ConfigInputs ==
    { [tag |-> "Configuration", coordinates |-> << 8, -5, -5 >>,
       joint_values |-> << 90, 0, 0, 0, 0, -90 >>],
      [tag |-> "Configuration", coordinates |-> << 7, -2, -4 >>,
       joint_values |-> << 0, 180, 0, -90, 90, 0 >>] }

RobotIds == {SupportedRobots[k] : k \in 1..Len(SupportedRobots)}

\* with simulator: ... (entering the block)
SimEnter(started) ==
    /\ rfl.depth < MaxDepth
    /\ LET r == SimulatorEnter(rfl.simulator, rfl.vrep, started)
       IN  rfl' = [rfl EXCEPT !.simulator = r.sim, !.vrep = Fresh(r.api), !.depth = @ + 1,
                               !.last = IF started.v >= 0 THEN "enter_valid"
                                        ELSE "enter_failed"]
    /\ UNCHANGED <<solvervars, wrapper, nums, latervars>>

\* leaving the block
SimExit ==
    /\ rfl.depth > 0
    /\ LET r == SimulatorExit(rfl.simulator, rfl.vrep)
       IN  rfl' = [rfl EXCEPT !.simulator = r.sim, !.vrep = Fresh(r.api), !.depth = @ - 1,
                               !.last = "exit", !.closed = rfl.simulator.client_id]
    /\ UNCHANGED <<solvervars, wrapper, nums, latervars>>

\* simulator.set_robot_config(robot, gantry_values, joint_values)
SimSetRobotConfig(id, config) ==
    /\ LET r == SetRobotConfig(rfl.simulator, Fresh(rfl.vrep),
                               << Argument("robot", NewRobot(id), NoConfiguration, <<>>),
                                  Argument("list", NoRobot, NoConfiguration, config.coordinates),
                                  Argument("list", NoRobot, NoConfiguration, config.joint_values) >>)
       IN  rfl' = [rfl EXCEPT !.vrep = r.api,
                               !.op = [NoOp EXCEPT !.name = "set_robot_config",
                                                   !.robot = NewRobot(id), !.config = config,
                                                   !.fault = r.fault]]
    /\ UNCHANGED <<solvervars, wrapper, nums, latervars>>

\* Robot(id, simulator).set_config(config)
RobotSetConfig(id, config) ==
    /\ LET r == SetConfig(rfl.simulator, Fresh(rfl.vrep), NewRobot(id), config)
       IN  rfl' = [rfl EXCEPT !.vrep = r.api,
                               !.op = [NoOp EXCEPT !.name = "set_config",
                                                   !.robot = NewRobot(id), !.config = config,
                                                   !.fault = r.fault, !.line = r.line]]
    /\ UNCHANGED <<solvervars, wrapper, nums, latervars>>

\* Robot(id, simulator).reset_config()
RobotResetConfig(id) ==
    /\ LET r == ResetConfig(rfl.simulator, Fresh(rfl.vrep), NewRobot(id))
       IN  rfl' = [rfl EXCEPT !.vrep = r.api,
                               !.op = [NoOp EXCEPT !.name = "reset_config",
                                                   !.robot = NewRobot(id),
                                                   !.fault = r.fault, !.line = r.line]]
    /\ UNCHANGED <<solvervars, wrapper, nums, latervars>>

\* Configuration(coordinates, joint_values) on two lists
MakeConfiguration(nc, nj) ==
    /\ LET r == NewConfiguration(List(Floats(nc)), List(Floats(nj)))
       IN  rfl' = [rfl EXCEPT !.vrep = Fresh(@),
                               !.op = [NoOp EXCEPT !.name = "Configuration",
                                                   !.coordinates = Floats(nc),
                                                   !.joint_values = Floats(nj),
                                                   !.fault = r.fault, !.line = r.line,
                                                   !.value = r.value]]
    /\ UNCHANGED <<solvervars, wrapper, nums, latervars>>

\* Configuration.from_list(list_of_floats)
ConfigurationFromList(n) ==
    /\ LET r == FromList(rfl.python, Floats(n))
       IN  rfl' = [rfl EXCEPT !.vrep = Fresh(@),
                               !.op = [NoOp EXCEPT !.name = "from_list",
                                                   !.coordinates = Floats(n),
                                                   !.fault = r.fault, !.line = r.line,
                                                   !.value = r.value]]
    /\ UNCHANGED <<solvervars, wrapper, nums, latervars>>

NextRfl ==
    \/ \E started \in StartResults : SimEnter(started)
    \/ SimExit
    \/ \E id \in RobotIds, config \in ConfigInputs : SimSetRobotConfig(id, config)
    \/ \E id \in RobotIds, config \in ConfigInputs : RobotSetConfig(id, config)
    \/ \E id \in RobotIds : RobotResetConfig(id)
    \/ \E nc, nj \in 0..MaxList : MakeConfiguration(nc, nj)
    \/ \E n \in 0..MaxList : ConfigurationFromList(n)

SpecRfl == InitRfl /\ [][NextRfl]_vars

(***************************************************************************)
(* arange called once on three integers.                                   *)
(***************************************************************************)
InitNum ==
    /\ InitSolverIdle
    /\ wrapper = NoWrapper
    /\ rfl = NoRfl
    /\ nums \in {[NoNums EXCEPT !.pc = "called", !.start = a, !.stop = b, !.step = c] :
                     a \in -MaxNum..MaxNum, b \in -MaxNum..MaxNum, c \in -MaxNum..MaxNum}
    /\ InitLaterIdle

CallArange ==
    /\ nums.pc = "called"
    /\ LET r == Arange(nums.start, nums.stop, nums.step)
       IN  nums' = [nums EXCEPT !.pc = IF r.fault = NoFault THEN "returned" ELSE "raised",
                                 !.fault = r.fault, !.line = r.line, !.value = r.value]
    /\ UNCHANGED <<solvervars, wrapper, rfl, latervars>>

NextNum == CallArange

SpecNum == InitNum /\ [][NextNum]_vars

(***************************************************************************)
(* update_component called on two components, and the document running     *)
(* the solutions scheduled on it.                                          *)
(***************************************************************************)
\* nothing has been called yet; the specifications of timer.py, of
\* find_path_plan and of the ROS messages all start here
InitIdle ==
    /\ InitSolverIdle
    /\ wrapper = NoWrapper
    /\ rfl = NoRfl
    /\ nums = NoNums
    /\ InitLaterIdle

CallUpdateComponent ==
    /\ timer.calls < MaxUpdates
    /\ \E component \in Components, delay \in -1..MaxDelay :
           LET r == UpdateComponent(timer.doc, component, delay)
           IN  timer' = [doc |-> r.doc, before |-> timer.doc,
                         op |-> [name |-> "update_component", component |-> component,
                                 delay |-> delay, fault |-> r.fault, line |-> r.line],
                         calls |-> timer.calls + 1]
    /\ UNCHANGED <<solvervars, wrapper, rfl, nums, plan, msgs>>

FireCallback ==
    /\ \E k \in DOMAIN timer.doc.scheduled :
           timer' = [timer EXCEPT !.doc = Callback(timer.doc, k), !.before = timer.doc,
                                  !.op = [name |-> "callback",
                                          component |-> timer.doc.scheduled[k].callback,
                                          delay |-> timer.doc.scheduled[k].delay,
                                          fault |-> NoFault, line |-> 27]]
    /\ UNCHANGED <<solvervars, wrapper, rfl, nums, plan, msgs>>

NextTimer ==
    \/ CallUpdateComponent
    \/ FireCallback

SpecTimer == InitIdle /\ [][NextTimer]_vars

(***************************************************************************)
(* find_path_plan called on one simulator, line by line.                   *)
(***************************************************************************)
PlanCall ==
    /\ plan.pc \in {"idle", "done"}
    /\ plan.calls < MaxPlans
    /\ \E n \in 0..MaxMeshes : plan' = PlanEnter(plan, n)
    /\ UNCHANGED <<solvervars, wrapper, rfl, nums, timer, msgs>>

PlanBuildMesh ==
    /\ plan.pc = "l232"
    /\ plan' = AddMesh(plan)
    /\ UNCHANGED <<solvervars, wrapper, rfl, nums, timer, msgs>>

PlanBuildMeshRaises ==
    /\ plan.pc = "l232"
    /\ plan' = AddMeshRaises(plan)
    /\ UNCHANGED <<solvervars, wrapper, rfl, nums, timer, msgs>>

\* line 178: set_metric returns the return code of the remote call unread
PlanSetMetric ==
    /\ plan.pc = "l178"
    /\ plan' = [plan EXCEPT !.pc = "l183"]
    /\ UNCHANGED <<solvervars, wrapper, rfl, nums, timer, msgs>>

PlanSearchStates ==
    /\ plan.pc = "l183"
    /\ \E res \in {0, 1} :
           plan' = Search(plan, res, "SimulationError: Failed to search robot states", "l193")
    /\ UNCHANGED <<solvervars, wrapper, rfl, nums, timer, msgs>>

PlanSearchPath ==
    /\ plan.pc = "l193"
    /\ \E res \in {0, 1} :
           plan' = Search(plan, res, "SimulationError: Failed to search robot path", "return")
    /\ UNCHANGED <<solvervars, wrapper, rfl, nums, timer, msgs>>

PlanFinally ==
    /\ plan.pc = "finally"
    /\ plan' = Finally(plan)
    /\ UNCHANGED <<solvervars, wrapper, rfl, nums, timer, msgs>>

NextPlan ==
    \/ PlanCall
    \/ PlanBuildMesh
    \/ PlanBuildMeshRaises
    \/ PlanSetMetric
    \/ PlanSearchStates
    \/ PlanSearchPath
    \/ PlanFinally

SpecPlan == InitIdle /\ [][NextPlan]_vars

(***************************************************************************)
(* ROS messages constructed and their fields mutated.                      *)
(***************************************************************************)
MsgValues == {1, 2}

\* m = class()
MsgConstruct ==
    /\ Len(msgs.objects) < MaxObjects
    /\ \E class \in MessageClasses :
           LET h == Construct(msgs.heap, class)
           IN  msgs' = [heap |-> h,
                        objects |-> Append(msgs.objects,
                                           [addr |-> Len(h), class |-> class,
                                            defaulted |-> TRUE, mutated |-> FALSE])]
    /\ UNCHANGED <<solvervars, wrapper, rfl, nums, timer, plan>>

\* m = class(...) with a new object passed for every list and message
MsgConstructWith ==
    /\ Len(msgs.objects) < MaxObjects
    /\ \E class \in MessageClasses \ {"Time"} :
           LET h == ConstructWith(msgs.heap, class)
           IN  msgs' = [heap |-> h,
                        objects |-> Append(msgs.objects,
                                           [addr |-> Len(h), class |-> class,
                                            defaulted |-> FALSE, mutated |-> FALSE])]
    /\ UNCHANGED <<solvervars, wrapper, rfl, nums, timer, plan>>

\* m.name.append(v), m.header.stamp.secs = v and the like on the k-th message
MsgMutate ==
    /\ \E k \in DOMAIN msgs.objects, v \in MsgValues :
           \E t \in Reach(msgs.heap, msgs.objects[k].addr) :
               /\ Mutable(msgs.heap, t)
               /\ msgs' = [heap |-> Mutated(msgs.heap, t, v),
                           objects |-> [msgs.objects EXCEPT ![k].mutated = TRUE]]
    /\ UNCHANGED <<solvervars, wrapper, rfl, nums, timer, plan>>

NextMsg ==
    \/ MsgConstruct
    \/ MsgConstructWith
    \/ MsgMutate

SpecMsg == InitIdle /\ [][NextMsg]_vars

(***************************************************************************)
(* Properties.                                                             *)
(***************************************************************************)
DefaultSelection(c) == ~c.args.cull_not_working /\ ~c.args.return_closest_to_start

\* the configuration the pipeline makes of one raw configuration that stays
WithNamesAndFit(s, raw) == [FitSlot(s.joints, raw) EXCEPT !.joint_names = s.joint_names]

\* C1: with cull_not_working and return_closest_to_start both False, a call that
\* returns hands back a list of exactly 8 slots, and slot i is None or the
\* configuration made of slot i of the raw output (its values fitted, the joint
\* names attached): no slot is moved, dropped or inserted.
C1_DefaultKeepsSlots ==
    \A t \in Threads :
        LET c == call[t]
        IN  (c.pc = "done" /\ DefaultSelection(c)) =>
                /\ c.result.kind = "list"
                /\ Len(c.result.value) = NSlots
                /\ Len(c.raw) = NSlots
                /\ \A i \in 1..NSlots :
                       \/ IsNone(c.result.value[i])
                       \/ c.result.value[i] = WithNamesAndFit(solver, c.raw[i])

\* a default call has returned a list with a nulled slot before a kept one whose
\* values the fit has shifted
C1_Witness ==
    \E t \in Threads :
        LET c == call[t]
        IN  /\ c.pc = "done"
            /\ DefaultSelection(c)
            /\ \E i, j \in 1..NSlots :
                   /\ i < j
                   /\ IsNone(c.result.value[i])
                   /\ ~IsNone(c.result.value[j])
                   /\ c.result.value[j].values # c.raw[j].values

\* the solver as the call found it
SolverAtEntry(c) == [solver EXCEPT !.base_transformation = c.solver0]

\* the call run alone on the solver as it found it
RunAlone(c) == RunToEnd(SolverAtEntry(c), robot, Enter(SolverAtEntry(c), c.args, c.peer)).call

RunFresh(c) ==
    LET fresh == NewSolver(robot, "arm", ctor.function, ctor.base_frame, ctor.tool_frame)
    IN  RunToEnd(fresh, robot, Enter(fresh, c.args, c.peer)).call

WellFormed(c) == ~IsNone(c) /\ Len(c.values) = NJoints

HasRaw(c) == Len(c.raw) = NSlots

HasFiltered(c) == Len(c.filtered) = NSlots

\* C4: when the raw output holds None in some of its 8 slots and six values in
\* every other, the call returns, and in the default result each of those
\* slots is None.
C4_SentinelsAbsorbed ==
    \A t \in Threads :
        LET c == call[t]
        IN  ( /\ Terminal(c)
              /\ HasRaw(c)
              /\ \E i \in 1..NSlots : IsNone(c.raw[i])
              /\ \A i \in 1..NSlots : IsNone(c.raw[i]) \/ WellFormed(c.raw[i]) )
            => /\ c.pc = "done"
               /\ DefaultSelection(c) =>
                      \A i \in 1..NSlots : IsNone(c.raw[i]) => IsNone(c.result.value[i])

RECURSIVE SumAbs(_, _, _)
SumAbs(a, b, j) == IF j = 0 THEN 0 ELSE Abs(a[j] - b[j]) + SumAbs(a, b, j - 1)

\* joint-space distance: the sum of the absolute differences of the values
Distance(c, d) == SumAbs(c.values, d.values, NJoints)

\* C5: with return_closest_to_start, a call whose filtered slots are not all
\* None returns one configuration that is not None; when a start configuration
\* was supplied it is the slot of least distance to it, the lowest index on a tie.
C5_ClosestToStart ==
    \A t \in Threads :
        LET c == call[t]
            start == c.args.start_configuration
        IN  ( /\ Terminal(c)
              /\ c.args.return_closest_to_start
              /\ HasFiltered(c)
              /\ \E i \in 1..NSlots : ~IsNone(c.filtered[i]) )
            => /\ c.pc = "done"
               /\ c.result.kind = "configuration"
               /\ ~IsNone(c.result.value[1])
               /\ ~IsNone(start) =>
                      \E i \in 1..NSlots :
                          /\ c.filtered[i] = c.result.value[1]
                          /\ \A j \in 1..NSlots :
                                 ~IsNone(c.filtered[j]) =>
                                     \/ Distance(c.filtered[i], start) < Distance(c.filtered[j], start)
                                     \/ /\ Distance(c.filtered[i], start) = Distance(c.filtered[j], start)
                                        /\ i <= j

\* C6: a call whose 8 slots are all None after the limit fit and the collision
\* filter returns, whatever cull_not_working and return_closest_to_start are.
C6_AllSentinelReturns ==
    \A t \in Threads :
        LET c == call[t]
        IN  ( /\ Terminal(c)
              /\ HasFiltered(c)
              /\ \A i \in 1..NSlots : IsNone(c.filtered[i]) )
            => c.pc = "done"

\* C7: on a solver constructed without a base frame or without a tool frame, a
\* call (without start configuration) gets past the conversion of line 80 and
\* hands the IK function the frame composed of the transformations present.
C7_MissingFrameIsIdentity ==
    \A t \in Threads :
        LET c == call[t]
        IN  ( /\ c.pc \notin {"idle", "l72", "l80"}
              /\ IsNone(c.args.start_configuration)
              /\ (IsNone(ctor.base_frame) \/ IsNone(ctor.tool_frame)) )
            => /\ ~(c.pc = "fault" /\ c.line = 80)
               /\ c.frame_tool0_RCF =
                      ConvertFrameWcfToFrameTool0Rcf(c.args.frame_WCF,
                                                     solver.base_transformation,
                                                     solver.tool_transformation)

\* C8: when a raw configuration has other than six values, the call ends in a
\* ValueError and the configurations are then as the IK function returned
\* them: no names attached, no values rewritten, no slot nulled.
C8_MalformedRejectedUntouched ==
    \A t \in Threads :
        LET c == call[t]
        IN  ( /\ Terminal(c)
              /\ HasRaw(c)
              /\ \A i \in 1..NSlots : ~IsNone(c.raw[i])
              /\ \E i \in 1..NSlots : Len(c.raw[i].values) # NJoints )
            => /\ c.pc = "fault"
               /\ c.fault = "ValueError"
               /\ c.configurations = c.raw

\* the values of d are those of c shifted by whole turns into the joint limits
FittedFrom(s, c, d) ==
    /\ d.joint_names = c.joint_names
    /\ Len(d.values) = NJoints
    /\ \A j \in 1..NJoints :
           /\ d.values[j] >= s.joints[j].lower
           /\ d.values[j] <= s.joints[j].upper
           /\ (d.values[j] - c.values[j]) % TwoPi = 0

\* C9: applied to n configurations of six values each, the fit raises nothing
\* and returns n slots; slot i is what the fit makes of input slot i alone, and
\* is None or input slot i with its values shifted into the limits.
C9_FitNeverCompacts ==
    fitbuf.applied = 1 =>
        /\ fitbuf.fault = NoFault
        /\ Len(fitbuf.first) = Len(fitbuf.input)
        /\ \A i \in 1..Len(fitbuf.input) :
               /\ << fitbuf.first[i] >> =
                      TryToFitConfigurationsBetweenBounds(solver, << fitbuf.input[i] >>).configurations
               /\ \/ IsNone(fitbuf.first[i])
                  \/ FittedFrom(solver, fitbuf.input[i], fitbuf.first[i])

\* the fit has nulled a middle slot of three and kept its neighbours
C9_Witness ==
    /\ fitbuf.applied = 1
    /\ Len(fitbuf.input) = 3
    /\ ~IsNone(fitbuf.first[1])
    /\ IsNone(fitbuf.first[2])
    /\ ~IsNone(fitbuf.first[3])
    /\ fitbuf.first[3].values # fitbuf.input[3].values

\* C10: the fit applied to the list it returned raises nothing and returns
\* the same list.
C10_FitIdempotent ==
    fitbuf.applied = 2 =>
        /\ fitbuf.fault = NoFault
        /\ fitbuf.configurations = fitbuf.first

HasFitted(c) == Len(c.fitted) = NSlots

\* the slots of a list that hold a configuration, and the k-th of them
Kept(configurations) == {i \in 1..Len(configurations) : ~IsNone(configurations[i])}

KthKept(configurations, k) ==
    CHOOSE i \in Kept(configurations) :
        Cardinality({j \in Kept(configurations) : j <= i}) = k

\* C11: with cull_not_working set and return_closest_to_start not set, a call
\* that returns hands back a list holding exactly the slots of the filtered
\* 8-slot list that are not None, in their order there: no None in the result,
\* no configuration dropped, none inserted.
C11_CullKeepsAllValid ==
    \A t \in Threads :
        LET c == call[t]
        IN  ( /\ c.pc = "done"
              /\ c.args.cull_not_working
              /\ ~c.args.return_closest_to_start ) =>
                /\ c.result.kind = "list"
                /\ HasFiltered(c)
                /\ Len(c.result.value) = Cardinality(Kept(c.filtered))
                /\ \A k \in 1..Len(c.result.value) :
                       /\ ~IsNone(c.result.value[k])
                       /\ c.result.value[k] = c.filtered[KthKept(c.filtered, k)]

\* a culling call has returned a shorter list, made of slots that stood after a
\* None and before another one
C11_Witness ==
    \E t \in Threads :
        LET c == call[t]
        IN  /\ c.pc = "done"
            /\ c.args.cull_not_working
            /\ ~c.args.return_closest_to_start
            /\ HasFiltered(c)
            /\ Len(c.result.value) \in 1..(NSlots - 1)
            /\ \E i, j, k \in 1..NSlots :
                   /\ i < j /\ j < k
                   /\ IsNone(c.filtered[i])
                   /\ ~IsNone(c.filtered[j])
                   /\ IsNone(c.filtered[k])

\* C12: on a robot without a client, a call that gets past the limit fit runs
\* no collision check and raises nothing at lines 99-100: the list it goes on
\* with is the list the fit left, slot for slot, and a default call returns
\* that list.
C12_NoClientSkipsCollisionCheck ==
    \A t \in Threads :
        LET c == call[t]
        IN  (robot.client = "None" /\ HasFitted(c) /\ c.pc # "l99") =>
                /\ c.filtered = c.fitted
                /\ ~(c.pc = "fault" /\ c.line \in {99, 100})
                /\ (Terminal(c) /\ DefaultSelection(c)) =>
                       /\ c.pc = "done"
                       /\ c.result.value = c.fitted

\* on a robot without a client a default call has returned a list that holds a
\* configuration the fit shifted
C12_Witness ==
    \E t \in Threads :
        LET c == call[t]
        IN  /\ robot.client = "None"
            /\ c.pc = "done"
            /\ DefaultSelection(c)
            /\ HasFitted(c)
            /\ \E i \in 1..NSlots :
                   /\ ~IsNone(c.fitted[i])
                   /\ c.fitted[i].values # c.raw[i].values
                   /\ c.result.value[i] = c.fitted[i]

\* C13: a call with a start_configuration gets past lines 72-74 without fault,
\* with the solver's base transformation recomputed from the robot's base
\* frame, and the frame it hands to the ik function is made with that one.
C13_BaseRecomputedForStart ==
    \A t \in Threads :
        LET c == call[t]
            recomputed == Inverse(TransformationFromFrame(robot.fixed_origin))
        IN  (~IsNone(c.args.start_configuration) /\ c.pc \notin {"idle", "l72"}) =>
                /\ ~(c.pc = "fault" /\ c.line \in {73, 74})
                /\ c.pc = "l80" => solver.base_transformation = recomputed
                /\ c.frame_tool0_RCF # NoneFrame =>
                       c.frame_tool0_RCF =
                           ConvertFrameWcfToFrameTool0Rcf(c.args.frame_WCF, recomputed,
                                                          solver.tool_transformation)

\* C14: the frame handed to the ik function is the product (base frame
\* inverted) * target * (tool frame inverted), the inverted base on the left
\* and the inverted tool on the right, which is what
\* convert_frame_wcf_to_frame_tool0_rcf gives for the same transformations.
C14_FrameConversionOrder ==
    \A t \in Threads :
        LET c == call[t]
            base == Inverse(TransformationFromFrame(ctor.base_frame))
            tool == Inverse(TransformationFromFrame(ctor.tool_frame))
            target == TransformationFromFrame(c.args.frame_WCF)
            handed == TransformationFromFrame(c.frame_tool0_RCF)
        IN  c.frame_tool0_RCF # NoneFrame =>
                /\ ctor.base_frame # NoneFrame
                /\ ctor.tool_frame # NoneFrame
                /\ \A i \in 1..3 : handed[i] = base[target[tool[i]]]
                /\ c.frame_tool0_RCF =
                       ConvertFrameWcfToFrameTool0Rcf(c.args.frame_WCF, base, tool)

\* a call has handed over a frame for which the order of the factors matters
C14_Witness ==
    \E t \in Threads :
        LET c == call[t]
            base == Inverse(TransformationFromFrame(ctor.base_frame))
            tool == Inverse(TransformationFromFrame(ctor.tool_frame))
            target == TransformationFromFrame(c.args.frame_WCF)
        IN  /\ c.pc = "l83"
            /\ c.frame_tool0_RCF # NoneFrame
            /\ Mul(Mul(tool, target), base) # TransformationFromFrame(c.frame_tool0_RCF)

\* the wrist centre of the target lies farther from the shoulder point than
\* upper arm and forearm reach together
BeyondReach(r, frame_rcf) ==
    LET g == Points(r)
    IN  Length(g.p1, WristCentre(g, frame_rcf)) > Length(g.p1, g.p2) + Length(g.p2, g.p3)

\* C15: for a target beyond the reach of upper arm plus forearm, ik_staubli_txl60
\* and ik_abb_irb4600_40_255 raise nothing and return 8 slots that are all None.
C15_UnreachableGivesEightSentinels ==
    (wrapper.pc \in {"done", "fault"} /\ BeyondReach(wrapper.robot, wrapper.frame_rcf)) =>
        /\ wrapper.pc = "done"
        /\ Len(wrapper.configurations) = NSlots
        /\ \A i \in 1..NSlots : IsNone(wrapper.configurations[i])

\* C17: over any sequence of entered and left with-blocks, is_connected() is
\* True only inside a block whose __enter__ was the last thing to happen and
\* obtained a valid client id; once __exit__ has run the client id is None and
\* is_connected() is False, and so it is outside every block.
C17_ConnectedOnlyInsideWith ==
    /\ IsConnected(rfl.simulator) =>
           /\ rfl.depth > 0
           /\ rfl.last = "enter_valid"
           /\ rfl.simulator.client_id \in rfl.vrep.open
    /\ rfl.last = "exit" =>
           /\ rfl.simulator.client_id = NoneId
           /\ ~IsConnected(rfl.simulator)
    /\ rfl.depth = 0 => ~IsConnected(rfl.simulator)

\* a with-block that held a valid connection has been left
C17_Witness ==
    /\ rfl.depth = 0
    /\ rfl.last = "exit"
    /\ rfl.closed.tag = "int"
    /\ rfl.closed.v >= 0
    /\ ~IsConnected(rfl.simulator)

\* the floats set_robot_config sends for a configuration
MoveRobotValues(config) ==
    config.coordinates \o [i \in 1..6 |-> Radians(config.joint_values[i])]

\* C18: Robot.set_config(config) on a Simulator completes without fault and
\* the simulator's set_robot_config gets the robot, the three gantry
\* coordinates and the six joint values of the configuration (and moves the
\* robot with them); Robot.reset_config does so with the robot's base
\* coordinates and six zeros.
C18_SetConfigReachesSimulator ==
    LET op == rfl.op
        config == IF op.name = "set_config" THEN op.config
                  ELSE [tag |-> "Configuration",
                        coordinates |-> RobotSettings(op.robot.id).base_coordinates,
                        joint_values |-> BaseJointValues]
    IN  op.name \in {"set_config", "reset_config"} =>
            /\ op.fault = NoFault
            /\ Len(rfl.vrep.received) = 2
            /\ rfl.vrep.received[2].function = "moveRobotFK"
            /\ rfl.vrep.received[2].floats = MoveRobotValues(config)
            /\ rfl.vrep.received[2].strings = << "robot", op.robot.name >>

\* C19: Configuration(coordinates, joint_values) returns for 3 coordinates and
\* 6 joint values and raises ValueError for any other counts;
\* Configuration.from_list returns exactly for lists of 9 floats, with the
\* first 3 as coordinates and the last 6, converted to degrees, as joint values.
C19_ConfigurationCounts ==
    LET op == rfl.op
    IN  /\ op.name = "Configuration" =>
               IF Len(op.coordinates) = 3 /\ Len(op.joint_values) = 6
               THEN /\ op.fault = NoFault
                    /\ op.value.coordinates = op.coordinates
                    /\ op.value.joint_values = op.joint_values
               ELSE op.fault = "ValueError"
        /\ op.name = "from_list" =>
               IF Len(op.coordinates) = 9
               THEN /\ op.fault = NoFault
                    /\ op.value.coordinates = SubSeq(op.coordinates, 1, 3)
                    /\ op.value.joint_values =
                           [i \in 1..6 |-> Degrees(op.coordinates[i + 3])]
               ELSE op.fault # NoFault

\* the sign of step points away from stop
PointsAway(start, stop, step) == (stop - start) * step < 0

\* C20: arange(start, stop, step) with step # 0 raises ValueError exactly when
\* the sign of step points away from stop; otherwise it returns
\* ceil((stop - start) / step) values start, start + step, ..., all of them
\* from start up to but excluding stop.
C20_ArangeLikeNumPy ==
    (nums.pc \in {"returned", "raised"} /\ nums.step # 0) =>
        IF PointsAway(nums.start, nums.stop, nums.step)
        THEN nums.fault = "ValueError"
        ELSE /\ nums.fault = NoFault
             /\ Len(nums.value) = CeilDiv(nums.stop - nums.start, nums.step)
             /\ \A i \in 1..Len(nums.value) :
                    /\ nums.value[i] = nums.start + (i - 1) * nums.step
                    /\ IF nums.step > 0
                       THEN nums.start <= nums.value[i] /\ nums.value[i] < nums.stop
                       ELSE nums.start >= nums.value[i] /\ nums.value[i] > nums.stop

\* value a shifted by k whole turns lies within the limit of joint j
ShiftFits(joints, j, a) ==
    \E k \in -3..3 : a + k * TwoPi >= joints[j].lower /\ a + k * TwoPi <= joints[j].upper

\* C22: after try_to_fit_configurations_between_bounds on a list of
\* configurations of six values, a slot is None exactly when one of its six
\* raw values has no shift by whole turns into its joint's limits; every other
\* slot holds six values, each within its joint's [lower, upper] and a whole
\* number of turns away from the raw value (the names untouched).
C22_FitWithinLimitsOrNone ==
    fitbuf.applied >= 1 =>
        /\ Len(fitbuf.first) = Len(fitbuf.input)
        /\ \A i \in 1..Len(fitbuf.input) :
               LET raw == fitbuf.input[i]
                   out == fitbuf.first[i]
               IN  IF \A j \in 1..NJoints : ShiftFits(solver.joints, j, raw.values[j])
                   THEN /\ ~IsNone(out)
                        /\ Len(out.values) = NJoints
                        /\ out.joint_names = raw.joint_names
                        /\ \A j \in 1..NJoints :
                               /\ out.values[j] >= solver.joints[j].lower
                               /\ out.values[j] <= solver.joints[j].upper
                               /\ (out.values[j] - raw.values[j]) % TwoPi = 0
                   ELSE IsNone(out)

\* the fit has run on a list with a configuration it shifted and one that has
\* a value no shift brings within its limits, next to values that fit
C22_Witness ==
    /\ fitbuf.applied >= 1
    /\ \E i, k \in 1..Len(fitbuf.input) :
           /\ ~IsNone(fitbuf.first[i])
           /\ fitbuf.first[i].values # fitbuf.input[i].values
           /\ IsNone(fitbuf.first[k])
           /\ \E j \in 1..NJoints : ShiftFits(solver.joints, j, fitbuf.input[k].values[j])

\* step a comes before step b wherever both were taken
Before(c, a, b) ==
    \A i, j \in 1..Len(c.steps) : (c.steps[i] = a /\ c.steps[j] = b) => i < j

\* step b was taken only with step a taken earlier
Needs(c, b, a) ==
    \A j \in 1..Len(c.steps) : c.steps[j] = b => \E i \in 1..(j - 1) : c.steps[i] = a

\* C23 as stated: the steps run in the order limit fit, name attachment,
\* collision filter, selection.
C23_FitBeforeNames ==
    \A t \in Threads :
        LET c == call[t]
        IN  /\ Needs(c, "names", "fit")
            /\ Needs(c, "collision", "names")
            /\ Needs(c, "selection", "names")

\* C23: the steps run in the order name attachment (line 95), limit fit (line
\* 97), collision filter (lines 99-100), selection (lines 102-109): the
\* collision collaborator is consulted only after the limit fit, and the
\* selection happens only after both filters.
C23_PipelineOrder ==
    \A t \in Threads :
        LET c == call[t]
        IN  /\ Needs(c, "fit", "names")
            /\ Needs(c, "collision", "fit")
            /\ Needs(c, "selection", "fit")
            /\ Before(c, "collision", "selection")
            /\ (robot.client # "None" => Needs(c, "selection", "collision"))
            /\ \A i, j \in 1..Len(c.steps) : c.steps[i] = c.steps[j] => i = j

\* a call on a robot with a client has gone through all four steps
C23_Witness ==
    \E t \in Threads :
        /\ call[t].pc = "done"
        /\ call[t].steps = << "names", "fit", "collision", "selection" >>

\* C24: every configuration in the result of a call carries the joint names
\* of the solver's group, one name per value and in the order of the joints.
C24_ResultCarriesJointNames ==
    \A t \in Threads :
        LET c == call[t]
        IN  c.pc = "done" =>
                \A i \in 1..Len(c.result.value) :
                    ~IsNone(c.result.value[i]) =>
                        /\ c.result.value[i].joint_names = GetConfigurableJointNames
                        /\ c.result.value[i].joint_names = solver.joint_names
                        /\ Len(c.result.value[i].joint_names) = Len(c.result.value[i].values)

\* a call has returned a list whose last slot is a configuration the fit shifted
C24_Witness ==
    \E t \in Threads :
        LET c == call[t]
        IN  /\ c.pc = "done"
            /\ c.result.kind = "list"
            /\ Len(c.result.value) = NSlots
            /\ ~IsNone(c.result.value[NSlots])
            /\ c.result.value[NSlots].values # c.raw[NSlots].values

\* C26: in a call with avoid_collisions=False the collision collaborator is not
\* consulted and no slot becomes None at lines 99-100, client or not.
C26_AvoidCollisionsFalseSkipsCheck ==
    \A t \in Threads :
        LET c == call[t]
        IN  (~c.args.avoid_collisions /\ HasFiltered(c)) =>
                /\ \A i \in 1..Len(c.steps) : c.steps[i] # "collision"
                /\ c.filtered = c.fitted

\* C28: after any sequence of calls the solver's tool_transformation, joints,
\* joint_names, group and function are those of its construction, and its
\* base_transformation differs from the constructed one only if some call
\* supplied a start_configuration.
C28_OnlyBaseTransformationChanges ==
    LET s0 == NewSolver(robot, "arm", ctor.function, ctor.base_frame, ctor.tool_frame)
    IN  /\ solver.tool_transformation = s0.tool_transformation
        /\ solver.joints = s0.joints
        /\ solver.joint_names = s0.joint_names
        /\ solver.group = s0.group
        /\ solver.function = s0.function
        /\ DOMAIN solver = DOMAIN s0
        /\ solver.base_transformation # s0.base_transformation => history.with_start

\* a second call on the solver, one with a start_configuration, has run to
\* its end
C28_Witness ==
    /\ history.calls = 2
    /\ history.with_start
    /\ ~IsNone(call[1].args.start_configuration)
    /\ Terminal(call[1])

\* the sign and the offset (in quarter turns) the two functions give each joint
Flip(r) == << -1, 1, 1, -1, 1, -1 >>

Offset(r) ==
    IF r = "staubli_txl60" THEN << 0, 1, 0, 0, 0, 1 >> ELSE << 0, 1, -1, 0, 0, 1 >>

\* C25: ik_staubli_txl60 and ik_abb_irb4600_40_255 return 8 configurations, and
\* value j of slot i is the raw angle of joint j in branch i, times the fixed
\* sign of that joint, plus its fixed offset: the same for all 8 branches, the
\* slots in the raw branch order.
C25_CorrectionsAreAffinePerJoint ==
    wrapper.pc = "done" =>
        /\ Len(wrapper.configurations) = NSlots
        /\ \A i \in 1..NSlots :
               /\ ~IsNone(wrapper.configurations[i])
               /\ Len(wrapper.configurations[i].values) = NJoints
               /\ \A j \in 1..NJoints :
                      wrapper.configurations[i].values[j] =
                          Flip(wrapper.robot)[j] * wrapper.raw[j][i].v
                              + Offset(wrapper.robot)[j] * (TwoPi \div 4)

\* ik_abb_irb4600_40_255 has returned 8 configurations, the first and the last
\* from different raw angles, the third angle turned back by a quarter turn
C25_Witness ==
    /\ wrapper.pc = "done"
    /\ wrapper.robot = "abb_irb4600_40_255"
    /\ wrapper.raw[1][1] # wrapper.raw[1][NSlots]
    /\ wrapper.configurations[1].values[3] = wrapper.raw[3][1].v - 1
    /\ wrapper.configurations[1] # wrapper.configurations[NSlots]

\* how many solutions scheduled on the document call back to the component
Scheduled(doc, c) == Cardinality({k \in DOMAIN doc.scheduled : doc.scheduled[k].callback = c})

\* C21: update_component raises ValueError and leaves the document as it was
\* when delay <= 0; for delay > 0 it adds exactly one solution with that delay
\* to the document and expires nothing; a callback that runs expires its
\* component once and takes one solution off the document.
C21_ScheduleOnceExpireOnce ==
    /\ timer.op.name = "update_component" =>
           IF timer.op.delay <= 0
           THEN /\ timer.op.fault = "ValueError"
                /\ timer.doc = timer.before
           ELSE /\ timer.op.fault = NoFault
                /\ timer.doc.scheduled =
                       Append(timer.before.scheduled,
                              [delay |-> timer.op.delay, callback |-> timer.op.component])
                /\ timer.doc.expired = timer.before.expired
    /\ timer.op.name = "callback" =>
           /\ Len(timer.doc.scheduled) = Len(timer.before.scheduled) - 1
           /\ \A c \in Components :
                  /\ timer.doc.expired[c] =
                         timer.before.expired[c] + (IF c = timer.op.component THEN 1 ELSE 0)
                  /\ Scheduled(timer.doc, c) =
                         Scheduled(timer.before, c) - (IF c = timer.op.component THEN 1 ELSE 0)

\* of three calls one was refused, and the callback of component a has just
\* run while a solution of component b still waits
C21_Witness ==
    /\ timer.calls = MaxUpdates
    /\ timer.op.name = "callback"
    /\ timer.op.component = "a"
    /\ timer.doc.expired = [c \in Components |-> IF c = "a" THEN 1 ELSE 0]
    /\ Len(timer.doc.scheduled) = 1
    /\ timer.doc.scheduled[1].callback = "b"

\* C27: when find_path_plan has returned or raised, no handle it added is
\* left in the scene.
C27_AddedMeshesRemoved ==
    plan.pc = "done" => plan.added \cap plan.scene = {}

\* C29: a message that was constructed with default arguments and whose
\* fields were never mutated through it reads as a newly constructed one,
\* whatever was done to the other messages.
C29_DefaultInstancesIndependent ==
    \A k \in DOMAIN msgs.objects :
        LET o == msgs.objects[k]
            h == Construct(ImportHeap, o.class)
        IN  (o.defaulted /\ ~o.mutated) => View(msgs.heap, o.addr) = View(h, Len(h))


====
